---- MODULE Spec2Model ----
(***************************************************************************)
(* Model of motorlib/motor.py: the motor object and motor.runSimulation.   *)
(*                                                                         *)
(* Numbers.  The program computes in floating point; the model computes    *)
(* in integers of scaled units.  Areas are in units of pi/4 (so the area   *)
(* of a circle of diameter d is d*d and the lateral area of a tube is      *)
(* 4*d*h), "/" is integer division, the burn-rate exponent n is given as   *)
(* twice its value (nTwice \in {0, 1}, n \in {0, 1/2}) so that             *)
(* 1/(1-n) \in {1, 2} and P^n is 1 or the integer square root of P, and    *)
(* burnoutThrustThres stays a percentage.                                  *)
(*                                                                         *)
(* The grain classes, the nozzle, the propellant, simulationResult and     *)
(* simAlert are imported by motor.py but are not part of the source at     *)
(* hand; they are modelled from the design document (sections 3, 4.1-4.3). *)
(***************************************************************************)
EXTENDS Integers, Sequences, FiniteSets, TLC

VARIABLES
    grains,       \* self.grains: the ordered stack, index 1 is forward-most
    propellant,   \* self.propellant: None or a record of constants
    nozzle,       \* self.nozzle
    config,       \* self.config
    callback,     \* the callback argument of runSimulation: None or a plan
    pc,           \* position of the current call of runSimulation
    simRes,       \* the simulationResult of the current call
    perGrainReg,  \* the local perGrainReg of the current call
    cbCalls,      \* number of invocations of callback in the current call
    cbArgs,       \* the values passed to callback in the current call
    setupCalls,   \* per grain: number of simulationSetup calls in this call
    run,          \* 1 or 2: which call on this motor object is in progress
    firstRes,     \* the result the first call returned (None before that)
    loadedFrom    \* None, or the dictionary this motor was constructed from

vars == <<grains, propellant, nozzle, config, callback, pc, simRes,
          perGrainReg, cbCalls, cbArgs, setupCalls, run, firstRes, loadedFrom>>

motorVars == <<grains, propellant, nozzle, config, callback, loadedFrom>>

\* An optional value is the empty tuple (None) or a one-element tuple; a
\* float that may be NaN is the empty tuple (NaN) or a one-element tuple.
None == <<>>
NaN == <<>>
Some(v) == <<v>>

-----------------------------------------------------------------------------
(* Bounds of the model. *)

\* longest grain stack
MaxGrains == 2
\* latest step at which a callback plan requests cancellation
MaxCancel == 2
\* no run is followed beyond this many samples per channel
MaxSamples == 8

-----------------------------------------------------------------------------
(* Helpers on sequences of numbers. *)

RECURSIVE SumUpTo(_, _)
SumUpTo(s, n) == IF n = 0 THEN 0 ELSE s[n] + SumUpTo(s, n - 1)

SumSeq(s) == SumUpTo(s, Len(s))

\* the list of n copies of v
RECURSIVE Repeat(_, _)
Repeat(v, n) == IF n = 0 THEN <<>> ELSE Append(Repeat(v, n - 1), v)

MaxOf(S) == CHOOSE x \in S : \A y \in S : y <= x

Range(s) == {s[i] : i \in 1..Len(s)}

ISqrt(x) == IF x <= 0 THEN 0 ELSE CHOOSE q \in 0..x : q * q <= x /\ (q + 1) * (q + 1) > x

\* a^e for the small non-negative integer exponents the model uses
RECURSIVE IPow(_, _)
IPow(a, e) == IF e = 0 THEN 1 ELSE a * IPow(a, e - 1)

-----------------------------------------------------------------------------
(* geometry.py *)

circleArea(d) == d * d

tubeArea(d, h) == 4 * d * h

cylinderVolume(d, h) == h * circleArea(d)

-----------------------------------------------------------------------------
(* simAlert, simAlertLevel, simAlertType (imported by motor.py). *)

ERROR == "ERROR"
WARNING == "WARNING"
CONSTRAINT == "CONSTRAINT"
GEOMETRY == "GEOMETRY"

simAlert(level, type, description, location) ==
    [level |-> level, type |-> type, description |-> description, location |-> location]

-----------------------------------------------------------------------------
(* The grain abstraction (design section 4.1).  A grain is a record        *)
(*   [type, diameter, coreDiameter, length, geomAlerts];                   *)
(* "endBurningGrain" burns from one flat face and has no port, "tube" is a *)
(* core-burning cylinder with inhibited ends.  geomAlerts is the list of   *)
(* levels of the alerts its geometry check reports.                        *)

endBurningGrain == "endBurningGrain"
tubeGrain == "tube"

coreAt(g, r) == g.coreDiameter + 2 * r

getWebLeft(g, r) ==
    IF g.type = endBurningGrain
    THEN g.length - r
    ELSE (g.diameter - g.coreDiameter) \div 2 - r

isWebLeft(g, r, burnoutWebThres) == getWebLeft(g, r) > burnoutWebThres

getSurfaceAreaAtRegression(g, r) ==
    IF g.type = endBurningGrain
    THEN circleArea(g.diameter)
    ELSE tubeArea(coreAt(g, r), g.length)

getVolumeAtRegression(g, r) ==
    IF g.type = endBurningGrain
    THEN cylinderVolume(g.diameter, g.length - r)
    ELSE (circleArea(g.diameter) - circleArea(coreAt(g, r))) * g.length

getPortArea(g, r) ==
    IF g.type = endBurningGrain THEN None ELSE Some(circleArea(coreAt(g, r)))

getPeakMassFlux(g, massIn, dt, r, dr, density) ==
    IF g.type = endBurningGrain
    THEN 0
    ELSE (massIn + ((getVolumeAtRegression(g, r) - getVolumeAtRegression(g, r + dr)) * density) \div dt)
             \div getPortArea(g, r + dr)[1]

getGeometryErrors(g) ==
    [i \in 1..Len(g.geomAlerts) |-> simAlert(g.geomAlerts[i], GEOMETRY, "Invalid grain geometry", "")]

-----------------------------------------------------------------------------
(* The nozzle (design section 4.2): [throat, exit, efficiency, geomAlerts], *)
(* efficiency in percent.                                                   *)

getThroatArea(nz) == circleArea(nz.throat)

getExitArea(nz) == circleArea(nz.exit)

\* the exit pressure matched to the expansion ratio: a fixed fraction of the
\* chamber pressure for a given nozzle
getExitPressure(nz, k, p_c) == (p_c * getThroatArea(nz)) \div getExitArea(nz)

nozzleGeometryErrors(nz) ==
    [i \in 1..Len(nz.geomAlerts) |-> simAlert(nz.geomAlerts[i], GEOMETRY, "Invalid nozzle geometry", "Nozzle")]

-----------------------------------------------------------------------------
(* simulationResult (design section 3): channels, alerts, success. *)

channelNames == {"time", "kn", "pressure", "force", "mass", "massFlow", "massFlux"}

simulationResult ==
    [channels |-> [time |-> <<>>, kn |-> <<>>, pressure |-> <<>>, force |-> <<>>,
                   mass |-> <<>>, massFlow |-> <<>>, massFlux |-> <<>>],
     alerts |-> <<>>, success |-> FALSE]

addData(res, name, value) ==
    [res EXCEPT !.channels[name] = Append(@, value)]

addAlert(res, alert) == [res EXCEPT !.alerts = Append(@, alert)]

RECURSIVE addAlerts(_, _)
addAlerts(res, alerts) ==
    IF alerts = <<>> THEN res ELSE addAlerts(addAlert(res, Head(alerts)), Tail(alerts))

getLast(res, name) == res.channels[name][Len(res.channels[name])]

getMax(res, name) == MaxOf(Range(res.channels[name]))

getAlertsByLevel(res, level) == SelectSeq(res.alerts, LAMBDA al : al.level = level)

\* peak of the massFlux channel over all samples and all grains
getPeakMassFluxOf(res) ==
    MaxOf(UNION {Range(res.channels["massFlux"][i]) : i \in 1..Len(res.channels["massFlux"])})

getMaxPressure(res) == getMax(res, "pressure")

-----------------------------------------------------------------------------
(* motor.calcKN, motor.calcIdealPressure, motor.calcForce.  They read the  *)
(* motor (grains, propellant, nozzle); r is a regression vector.           *)

calcKN(r, burnoutWebThres) ==
    LET surfArea == SumSeq([i \in 1..Len(grains) |->
                       getSurfaceAreaAtRegression(grains[i], r[i])
                         * (IF isWebLeft(grains[i], r[i], burnoutWebThres) THEN 1 ELSE 0)])
        nozz == getThroatArea(nozzle)
    IN surfArea \div nozz

\* ((k/((8314/m)*t)) * ((2/(k+1))**((k+1)/(k-1)))) ** 0.5
idealPressureDenom(k, t, m) ==
    LET e == (k + 1) \div (k - 1)
    IN ISqrt((k * m * IPow(2, e)) \div (8314 * t * IPow(k + 1, e)))

calcIdealPressure(r, kn, burnoutWebThres) ==
    LET k == propellant.k
        t == propellant.t
        m == propellant.m
        p == propellant.density
        a == propellant.a
        kn1 == IF kn = None THEN calcKN(r, burnoutWebThres) ELSE kn[1]
        num == kn1 * p * a
        exponent == IF propellant.nTwice = 0 THEN 1 ELSE 2
        denom == idealPressureDenom(k, t, m)
    IN IPow(num \div denom, exponent)

\* (t1 * t2 * t3) ** 0.5, NaN when t3 is negative
thrustRoot(k, p_e, p_c) ==
    LET e == (k + 1) \div (k - 1)
    IN IF p_e > p_c
       THEN NaN
       ELSE Some(ISqrt((2 * k * k * IPow(2, e) * (p_c - p_e)) \div ((k - 1) * IPow(k + 1, e) * p_c)))

calcForce(r, casePressure, ambientPressure, burnoutWebThres) ==
    LET k == propellant.k
        t_a == getThroatArea(nozzle)
        e_a == getExitArea(nozzle)
        p_a == ambientPressure
        p_c == IF casePressure = None
               THEN calcIdealPressure(r, None, burnoutWebThres)
               ELSE casePressure[1]
    IN IF p_c = 0
       THEN 0
       ELSE LET p_e == getExitPressure(nozzle, k, p_c)
                sr == thrustRoot(k, p_e, p_c)
                f == IF sr = NaN
                     THEN NaN
                     ELSE Some((nozzle.efficiency * t_a * p_c * sr[1]) \div 100 + (p_e - p_a) * e_a)
            IN IF f = NaN THEN 0 ELSE IF f[1] < 0 THEN 0 ELSE f[1]

-----------------------------------------------------------------------------
(* Inputs: the motors, configurations and callbacks the model runs.        *)

GrainSet ==
    { [type |-> endBurningGrain, diameter |-> 4, coreDiameter |-> 0, length |-> 3, geomAlerts |-> <<>>],
      [type |-> tubeGrain, diameter |-> 6, coreDiameter |-> 2, length |-> 1, geomAlerts |-> <<>>],
      [type |-> tubeGrain, diameter |-> 9, coreDiameter |-> 3, length |-> 2, geomAlerts |-> <<WARNING>>],
      [type |-> tubeGrain, diameter |-> 5, coreDiameter |-> 5, length |-> 1, geomAlerts |-> <<ERROR, ERROR>>] }

GrainStacks == UNION {[1..n -> GrainSet] : n \in 0..MaxGrains}

PropellantSet ==
    { [k |-> 2, t |-> 16, m |-> 224478, density |-> 1, a |-> 1, nTwice |-> 0],
      [k |-> 2, t |-> 1, m |-> 224478, density |-> 2, a |-> 1, nTwice |-> 1] }

NozzleSet ==
    { [throat |-> 2, exit |-> 4, efficiency |-> 100, geomAlerts |-> <<>>],
      [throat |-> 2, exit |-> 2, efficiency |-> 100, geomAlerts |-> <<>>],
      [throat |-> 2, exit |-> 1, efficiency |-> 100, geomAlerts |-> <<ERROR>>] }

ConfigSet ==
    { [maxPressure |-> 8, maxMassFlux |-> 1, minPortThroat |-> 2, burnoutWebThres |-> w,
       burnoutThrustThres |-> th, timestep |-> ts, ambPressure |-> pa, mapDim |-> 250] :
         w \in {0, 1}, th \in {10, 50}, ts \in {1, 2}, pa \in {0, 2} }

\* A callback is a plan: it returns true on invocation number cancelAt and
\* false on every other one (cancelAt = 0: it never requests cancellation).
CallbackSet == {[cancelAt |-> c] : c \in 0..MaxCancel}

callbackReturns(cb, invocation) == invocation = cb.cancelAt

-----------------------------------------------------------------------------
(* motor.__init__ and the state before the first call of runSimulation. *)

Init ==
    /\ grains \in GrainStacks
    /\ propellant \in {None} \cup PropellantSet
    /\ nozzle \in NozzleSet
    /\ config \in ConfigSet
    /\ callback \in {None} \cup CallbackSet
    /\ pc = "call"
    /\ simRes = simulationResult
    /\ perGrainReg = <<>>
    /\ cbCalls = 0
    /\ cbArgs = <<>>
    /\ setupCalls = [i \in 1..Len(grains) |-> 0]
    /\ run = 1
    /\ firstRes = None
    /\ loadedFrom = None

-----------------------------------------------------------------------------
(* motor.runSimulation, lines 114-135: validation. *)

\* variant: the location names the 0-based index
grainLocationZeroBased(gid) == "Grain " \o ToString(gid)

grainLocation(gid) == "Grain " \o ToString(gid + 1)

\* gid is the 0-based index of enumerate(self.grains)
placementAlerts(gid) ==
    IF grains[gid + 1].type = endBurningGrain /\ gid # 0
    THEN <<simAlert(ERROR, CONSTRAINT,
                    "End burning grains must be the forward-most grain in the motor",
                    grainLocation(gid))>>
    ELSE <<>>

relocatedGeometryErrors(gid) ==
    LET errs == getGeometryErrors(grains[gid + 1])
    IN [i \in 1..Len(errs) |-> [errs[i] EXCEPT !.location = grainLocation(gid)]]

RECURSIVE grainAlerts(_)
grainAlerts(gid) ==
    IF gid >= Len(grains)
    THEN <<>>
    ELSE placementAlerts(gid) \o relocatedGeometryErrors(gid) \o grainAlerts(gid + 1)

\* variant: the missing-grains alert is raised as a WARNING
noGrainsAlertsAsWarning ==
    IF Len(grains) = 0
    THEN <<simAlert(WARNING, CONSTRAINT, "Motor must have at least one propellant grain", "Motor")>>
    ELSE <<>>

noGrainsAlerts ==
    IF Len(grains) = 0
    THEN <<simAlert(ERROR, CONSTRAINT, "Motor must have at least one propellant grain", "Motor")>>
    ELSE <<>>

noPropellantAlerts ==
    IF propellant = None
    THEN <<simAlert(ERROR, CONSTRAINT, "Motor must have a propellant set", "Motor")>>
    ELSE <<>>

validationAlerts ==
    noGrainsAlerts \o grainAlerts(0) \o nozzleGeometryErrors(nozzle) \o noPropellantAlerts

\* variant: a single ERROR does not stop the run
hasErrorsMoreThanOne(res) == Len(getAlertsByLevel(res, ERROR)) > 1

hasErrors(res) == Len(getAlertsByLevel(res, ERROR)) > 0

Validate ==
    /\ pc = "call"
    /\ LET res == addAlerts(simulationResult, validationAlerts)
       IN /\ simRes' = res
          /\ pc' = IF hasErrors(res) THEN "rejected" ELSE "setup"
    /\ cbCalls' = 0
    /\ cbArgs' = <<>>
    /\ setupCalls' = [i \in 1..Len(grains) |-> 0]
    /\ UNCHANGED <<motorVars, perGrainReg, run, firstRes>>

-----------------------------------------------------------------------------
(* motor.runSimulation, lines 137-174: setup and the two seeded samples. *)

zeros == Repeat(0, Len(grains))

initialMasses == [i \in 1..Len(grains) |-> getVolumeAtRegression(grains[i], 0) * propellant.density]

\* lines 150-156: at t=0 the motor has not yet ignited
seedSample0(res) ==
    LET a1 == addData(res, "time", 0)
        a2 == addData(a1, "kn", 0)
        a3 == addData(a2, "pressure", 0)
        a4 == addData(a3, "force", 0)
        a5 == addData(a4, "mass", initialMasses)
        a6 == addData(a5, "massFlow", zeros)
    IN addData(a6, "massFlux", zeros)

\* variant: the second sample repeats time 0
seedSample1AtTimeZero(res, reg) ==
    LET a1 == addData(res, "time", 0)
        a2 == addData(a1, "kn", calcKN(reg, config.burnoutWebThres))
        a3 == addData(a2, "pressure", calcIdealPressure(reg, None, config.burnoutWebThres))
        a4 == addData(a3, "force", calcForce(reg, None, config.ambPressure, config.burnoutWebThres))
        a5 == addData(a4, "mass", initialMasses)
        a6 == addData(a5, "massFlow", zeros)
    IN addData(a6, "massFlux", zeros)

\* lines 159-165: at t=ts the motor has ignited
seedSample1(res, reg) ==
    LET a1 == addData(res, "time", config.timestep)
        a2 == addData(a1, "kn", calcKN(reg, config.burnoutWebThres))
        a3 == addData(a2, "pressure", calcIdealPressure(reg, None, config.burnoutWebThres))
        a4 == addData(a3, "force", calcForce(reg, None, config.ambPressure, config.burnoutWebThres))
        a5 == addData(a4, "mass", initialMasses)
        a6 == addData(a5, "massFlow", zeros)
    IN addData(a6, "massFlux", zeros)

\* variant: the port/throat alert is raised as an ERROR
portThroatAlertsAsError ==
    LET aftPort == getPortArea(grains[Len(grains)], 0)
    IN IF aftPort # None /\ aftPort[1] < config.minPortThroat * circleArea(nozzle.throat)
       THEN <<simAlert(ERROR, CONSTRAINT, "Initial port/throat ratio was less than minimum", "N/A")>>
       ELSE <<>>

\* variant: the port of the forward-most grain is the one compared
portThroatAlertsForwardGrain ==
    LET aftPort == getPortArea(grains[1], 0)
    IN IF aftPort # None /\ aftPort[1] < config.minPortThroat * circleArea(nozzle.throat)
       THEN <<simAlert(WARNING, CONSTRAINT, "Initial port/throat ratio was less than minimum", "N/A")>>
       ELSE <<>>

\* lines 167-174: ratio < minAllowed, with ratio = aftPort / circleArea(throat)
portThroatAlerts ==
    LET aftPort == getPortArea(grains[Len(grains)], 0)
    IN IF aftPort # None /\ aftPort[1] < config.minPortThroat * circleArea(nozzle.throat)
       THEN <<simAlert(WARNING, CONSTRAINT, "Initial port/throat ratio was less than minimum", "N/A")>>
       ELSE <<>>

\* variant: the regression of the previous call on this motor is kept
initialRegressionKept == IF Len(perGrainReg) = Len(grains) THEN perGrainReg ELSE zeros

\* line 147
initialRegression == zeros

Initialize ==
    /\ pc = "setup"
    /\ setupCalls' = [i \in 1..Len(grains) |-> setupCalls[i] + 1]
    /\ perGrainReg' = initialRegression
    /\ simRes' = addAlerts(seedSample1(seedSample0(simRes), initialRegression), portThroatAlerts)
    /\ pc' = "loop"
    /\ UNCHANGED <<motorVars, cbCalls, cbArgs, run, firstRes>>

-----------------------------------------------------------------------------
(* motor.runSimulation, lines 177-210: the step loop. *)

\* variant: the comparison is not strict
continueTestNotStrict(res) ==
    getLast(res, "force") * 100 >= config.burnoutThrustThres * getMax(res, "force")

\* line 177: force.getLast() > burnoutThrustThres * 0.01 * force.getMax()
continueTest(res) ==
    getLast(res, "force") * 100 > config.burnoutThrustThres * getMax(res, "force")

\* variant: a burn rate coefficient of zero
regressionStepStalled(res) == 0

\* variant: the pressure is read one sample too early
regressionStepLagging(res) ==
    config.timestep * propellant.a
        * (IF propellant.nTwice = 0
           THEN 1
           ELSE ISqrt(res.channels["pressure"][Len(res.channels["pressure"]) - 1]))

\* line 185: ts * ballA * pressure.getLast() ** ballN
regressionStep(res) ==
    config.timestep * propellant.a
        * (IF propellant.nTwice = 0 THEN 1 ELSE ISqrt(getLast(res, "pressure")))

\* variant: the volume is taken one increment behind the regression
steppedMassBehind(gid, reg, dr) ==
    getVolumeAtRegression(grains[gid + 1], reg - dr) * propellant.density

\* line 187: the mass of the grain recorded by the step
steppedMass(gid, reg, dr) == getVolumeAtRegression(grains[gid + 1], reg) * propellant.density

\* lines 183-190: the sweep over the grains from 0-based index gid on; mf is
\* the running mass flow, st the per-grain lists built so far
RECURSIVE grainSweep(_, _, _, _)
grainSweep(res, gid, mf, st) ==
    IF gid >= Len(grains)
    THEN st
    ELSE LET i == gid + 1
             grain == grains[i]
         IN IF getWebLeft(grain, st.perGrainReg[i]) > config.burnoutWebThres
            THEN LET reg == regressionStep(res)
                     flux == getPeakMassFlux(grain, mf, config.timestep, st.perGrainReg[i],
                                             reg, propellant.density)
                     mass == steppedMass(gid, st.perGrainReg[i], reg)
                     mf2 == mf + (getLast(res, "mass")[i] - mass) \div config.timestep
                 IN grainSweep(res, gid + 1, mf2,
                               [st EXCEPT !.perGrainMassFlux[i] = flux,
                                          !.perGrainMass[i] = mass,
                                          !.perGrainReg[i] = @ + reg,
                                          !.perGrainMassFlow[i] = mf2])
            ELSE grainSweep(res, gid + 1, mf, [st EXCEPT !.perGrainMassFlow[i] = mf])

\* lines 192-205: the seven appends of one iteration, given what the sweep
\* over the grains has left in st; each of kn, pressure, force and time is
\* computed from the result as the appends before it have left it
appendSamples(res, st) ==
    LET a1 == addData(res, "mass", st.perGrainMass)
        a2 == addData(a1, "massFlow", st.perGrainMassFlow)
        a3 == addData(a2, "massFlux", st.perGrainMassFlux)
        withKN == {addData(a3, "kn", calcKN(st.perGrainReg, config.burnoutWebThres))}
        withPressure ==
            {addData(a4, "pressure",
                     calcIdealPressure(st.perGrainReg, Some(getLast(a4, "kn")),
                                       config.burnoutWebThres)) : a4 \in withKN}
        withForce ==
            {addData(a5, "force",
                     calcForce(st.perGrainReg, Some(getLast(a5, "pressure")),
                               config.ambPressure, config.burnoutWebThres)) : a5 \in withPressure}
        withTime ==
            {addData(a6, "time", getLast(a6, "time") + config.timestep) : a6 \in withForce}
    IN CHOOSE out \in {[res |-> a7, perGrainReg |-> st.perGrainReg] : a7 \in withTime} : TRUE

\* variant: the running mass flow is not reset when an iteration begins
stepBodyCarryingFlow(res, regs) ==
    CHOOSE out \in
        {appendSamples(res, st) :
            st \in {grainSweep(res, 0, getLast(res, "massFlow")[Len(grains)],
                                [perGrainMass |-> zeros, perGrainMassFlow |-> zeros,
                                 perGrainMassFlux |-> zeros, perGrainReg |-> regs])}} : TRUE

\* variant: the per-grain masses of an iteration start from the last sample
stepBodyKeepingMass(res, regs) ==
    CHOOSE out \in
        {appendSamples(res, st) :
            st \in {grainSweep(res, 0, 0,
                                [perGrainMass |-> getLast(res, "mass"), perGrainMassFlow |-> zeros,
                                 perGrainMassFlux |-> zeros, perGrainReg |-> regs])}} : TRUE

\* lines 179-205: one iteration of the loop body up to the callback
stepBody(res, regs) ==
    CHOOSE out \in
        {appendSamples(res, st) :
            st \in {grainSweep(res, 0, 0,
                                [perGrainMass |-> zeros, perGrainMassFlow |-> zeros,
                                 perGrainMassFlux |-> zeros, perGrainReg |-> regs])}} : TRUE

\* line 208, as a percentage: the largest fraction of web left over the grains
progressOf(regs) ==
    MaxOf({(100 * getWebLeft(grains[i], regs[i])) \div getWebLeft(grains[i], 0) : i \in 1..Len(grains)})

\* variant: the value the callback returns is ignored
afterCallbackIgnored(cancel) == "loop"

\* lines 209-210: a true return value ends the call at once
afterCallback(cancel) == IF cancel THEN "cancelled" ELSE "loop"

Step ==
    /\ pc = "loop"
    /\ continueTest(simRes)
    /\ Len(simRes.channels["time"]) < MaxSamples
    /\ \E out \in {stepBody(simRes, perGrainReg)} :
          /\ simRes' = out.res
          /\ perGrainReg' = out.perGrainReg
          /\ IF callback # None
             THEN /\ cbCalls' = cbCalls + 1
                  /\ cbArgs' = Append(cbArgs, 100 - progressOf(out.perGrainReg))
                  /\ pc' = afterCallback(callbackReturns(callback, cbCalls + 1))
             ELSE /\ UNCHANGED <<cbCalls, cbArgs>>
                  /\ pc' = "loop"
    /\ UNCHANGED <<motorVars, setupCalls, run, firstRes>>

-----------------------------------------------------------------------------
(* motor.runSimulation, lines 212-224: natural burnout. *)

\* variant: the comparisons are not strict
postRunAlertsNotStrict(res) ==
    (IF getPeakMassFluxOf(res) >= config.maxMassFlux
     THEN <<simAlert(WARNING, CONSTRAINT, "Peak mass flux exceeded configured limit", "Motor")>>
     ELSE <<>>)
    \o
    (IF getMaxPressure(res) >= config.maxPressure
     THEN <<simAlert(WARNING, CONSTRAINT, "Max pressure exceeded configured limit", "Motor")>>
     ELSE <<>>)

\* lines 214-222
postRunAlerts(res) ==
    (IF getPeakMassFluxOf(res) > config.maxMassFlux
     THEN <<simAlert(WARNING, CONSTRAINT, "Peak mass flux exceeded configured limit", "Motor")>>
     ELSE <<>>)
    \o
    (IF getMaxPressure(res) > config.maxPressure
     THEN <<simAlert(WARNING, CONSTRAINT, "Max pressure exceeded configured limit", "Motor")>>
     ELSE <<>>)

\* variant: the flag is left as it was
markSuccessForgotten(res) == res

\* line 212
markSuccess(res) == [res EXCEPT !.success = TRUE]

Burnout ==
    /\ pc = "loop"
    /\ ~continueTest(simRes)
    /\ simRes' = addAlerts(markSuccess(simRes), postRunAlerts(simRes))
    /\ pc' = "burnout"
    /\ UNCHANGED <<motorVars, perGrainReg, cbCalls, cbArgs, setupCalls, run, firstRes>>

-----------------------------------------------------------------------------
(* The caller: a second call of runSimulation on the same motor object with *)
(* the same callback, after the first has returned.                        *)

Returned == pc \in {"rejected", "cancelled", "burnout"}

Rerun ==
    /\ Returned
    /\ run = 1
    /\ firstRes' = Some(simRes)
    /\ run' = 2
    /\ pc' = "call"
    /\ UNCHANGED <<motorVars, simRes, perGrainReg, cbCalls, cbArgs, setupCalls>>

-----------------------------------------------------------------------------
(* motor.getDict and motor.applyDict, lines 38-59: the motor definition     *)
(* record and the construction of a motor from one.                        *)

\* the geomName of each grain class, and the registry grainTypes that maps a
\* geomName back to its class
geomName(g) == IF g.type = endBurningGrain THEN "End Burner" ELSE "Tube"

grainTypes == [name \in {"End Burner", "Tube"} |->
                 IF name = "End Burner" THEN endBurningGrain ELSE tubeGrain]

\* propertyCollection.getProperties of a grain: the map of its properties
grainProperties(g) ==
    [diameter |-> g.diameter, coreDiameter |-> g.coreDiameter,
     length |-> g.length, geomAlerts |-> g.geomAlerts]

\* line 56-57: grainTypes[entry['type']]() followed by setProperties
grainFromEntry(entry) ==
    [type |-> grainTypes[entry.type],
     diameter |-> entry.properties.diameter,
     coreDiameter |-> entry.properties.coreDiameter,
     length |-> entry.properties.length,
     geomAlerts |-> entry.properties.geomAlerts]

\* line 44: {'type': grain.geomName, 'properties': grain.getProperties()}
grainEntry(g) == [type |-> geomName(g), properties |-> grainProperties(g)]

\* lines 38-47, of the motor m = [grains, propellant, nozzle, config]
getDictOf(m) ==
    [nozzle |-> [throat |-> m.nozzle.throat, exit |-> m.nozzle.exit,
                 efficiency |-> m.nozzle.efficiency, geomAlerts |-> m.nozzle.geomAlerts],
     propellant |-> IF m.propellant # None
                    THEN Some([k |-> m.propellant.k, t |-> m.propellant.t, m |-> m.propellant.m,
                               density |-> m.propellant.density, a |-> m.propellant.a,
                               nTwice |-> m.propellant.nTwice])
                    ELSE None,
     grains |-> [i \in 1..Len(m.grains) |-> grainEntry(m.grains[i])],
     config |-> m.config]

getDict == getDictOf([grains |-> grains, propellant |-> propellant,
                      nozzle |-> nozzle, config |-> config])

\* variant: the propellant of the dictionary is never read
applyDictWithoutPropellant(dictionary) ==
    [nozzle |-> dictionary.nozzle,
     propellant |-> None,
     grains |-> [i \in 1..Len(dictionary.grains) |-> grainFromEntry(dictionary.grains[i])],
     config |-> dictionary.config]

\* lines 49-59, on the motor __init__ has just made (no grains, no propellant)
applyDict(dictionary) ==
    [nozzle |-> [throat |-> dictionary.nozzle.throat, exit |-> dictionary.nozzle.exit,
                 efficiency |-> dictionary.nozzle.efficiency,
                 geomAlerts |-> dictionary.nozzle.geomAlerts],
     propellant |-> IF dictionary.propellant # None
                    THEN dictionary.propellant[1]
                    ELSE None,
     grains |-> [i \in 1..Len(dictionary.grains) |-> grainFromEntry(dictionary.grains[i])],
     config |-> dictionary.config]

\* The caller: after the first call has returned, motor(m.getDict()) takes
\* the place of m and is run with the same callback.
Reconstruct ==
    /\ Returned
    /\ run = 1
    /\ LET m == applyDict(getDict)
       IN /\ grains' = m.grains
          /\ propellant' = m.propellant
          /\ nozzle' = m.nozzle
          /\ config' = m.config
    /\ loadedFrom' = Some(getDict)
    /\ firstRes' = Some(simRes)
    /\ run' = 2
    /\ pc' = "call"
    /\ UNCHANGED <<callback, simRes, perGrainReg, cbCalls, cbArgs, setupCalls>>

Next == Validate \/ Initialize \/ Step \/ Burnout \/ Rerun \/ Reconstruct

Spec == Init /\ [][Next]_vars

\* runSimulation is one synchronous call: once entered, each of its steps is
\* taken as soon as it can be.  Whether the caller calls again is its choice.
\* The motors of the fair specification: clean grains, the nozzle with the
\* larger exit, no ambient pressure, both timesteps, and a callback
\* that is absent, never cancels, or cancels at the second step.
FairInit ==
    /\ Init
    /\ \A i \in 1..Len(grains) : grains[i].geomAlerts = <<>>
    /\ nozzle.exit = 4
    /\ config.burnoutWebThres = 0
    /\ config.burnoutThrustThres = 10
    /\ config.ambPressure = 0
    /\ callback \in {None, [cancelAt |-> 0], [cancelAt |-> 2]}

FairSpec ==
    /\ FairInit /\ [][Next]_vars
    /\ WF_vars(Validate) /\ WF_vars(Initialize) /\ WF_vars(Step) /\ WF_vars(Burnout)

-----------------------------------------------------------------------------
(* Vocabulary of the properties. *)

errorAlerts == getAlertsByLevel(simRes, ERROR)

samples(name) == Len(simRes.channels[name])

allChannelsEmpty == \A c \in channelNames : simRes.channels[c] = <<>>

countAlerts(P(_)) == Len(SelectSeq(simRes.alerts, P))

isNoGrainsAlert(al) == al.description = "Motor must have at least one propellant grain"

isPlacementAlert(al) ==
    al.description = "End burning grains must be the forward-most grain in the motor"

hasErrorLevel(levels) == \E i \in 1..Len(levels) : levels[i] = ERROR

\* the motor gives validation nothing else to report as an ERROR
cleanOtherwise ==
    /\ propellant # None
    /\ ~hasErrorLevel(nozzle.geomAlerts)
    /\ \A i \in 1..Len(grains) : ~hasErrorLevel(grains[i].geomAlerts)

misplaced == {i \in 1..Len(grains) : grains[i].type = endBurningGrain /\ i >= 2}

\* some validation check of lines 117-131 reports an ERROR for this motor
motorHasValidationError ==
    \/ Len(grains) = 0
    \/ misplaced # {}
    \/ \E i \in 1..Len(grains) : hasErrorLevel(grains[i].geomAlerts)
    \/ hasErrorLevel(nozzle.geomAlerts)
    \/ propellant = None

\* the number of alerts the validation checks of lines 117-131 report together
validationAlertCount ==
    (IF Len(grains) = 0 THEN 1 ELSE 0)
    + Cardinality(misplaced)
    + SumSeq([i \in 1..Len(grains) |-> Len(grains[i].geomAlerts)])
    + Len(nozzle.geomAlerts)
    + (IF propellant = None THEN 1 ELSE 0)

-----------------------------------------------------------------------------
(* C1 as stated: every motor with an empty grain list, whatever its         *)
(* propellant and nozzle, gets a result with success=false and exactly one  *)
(* ERROR alert, located at "Motor".                                         *)
C1_AsStated ==
    (Returned /\ Len(grains) = 0) =>
        /\ ~simRes.success
        /\ Len(errorAlerts) = 1
        /\ errorAlerts[1].location = "Motor"

(* C1, amended: every motor with an empty grain list is rejected with       *)
(* success=false and exactly one "at least one propellant grain" alert,     *)
(* which is an ERROR located at "Motor" and the first alert; it is the only *)
(* ERROR alert exactly when a propellant is set and the nozzle reports no   *)
(* ERROR geometry alert (a missing propellant adds a second ERROR at        *)
(* "Motor").                                                                *)
C1_ZeroGrainsRejected ==
    (Returned /\ Len(grains) = 0) =>
        /\ pc = "rejected"
        /\ ~simRes.success
        /\ countAlerts(isNoGrainsAlert) = 1
        /\ isNoGrainsAlert(simRes.alerts[1])
        /\ simRes.alerts[1].level = ERROR
        /\ simRes.alerts[1].location = "Motor"
        /\ (Len(errorAlerts) = 1 <=> cleanOtherwise)
        /\ (propellant = None =>
              countAlerts(LAMBDA al : al.level = ERROR /\ al.location = "Motor") = 2)

C1_Witness ==
    /\ pc = "rejected"
    /\ Len(grains) = 0
    /\ propellant # None
    /\ Len(errorAlerts) = 1
    /\ errorAlerts[1].location = "Motor"

-----------------------------------------------------------------------------
(* C2 as stated: one placement ERROR per end-burning grain at index >= 1,   *)
(* located at "Grain <i+1>", none at index 0, and a 2-grain stack with an   *)
(* end-burning grain at index 1 yields exactly one ERROR alert, referencing *)
(* "Grain 2", and is rejected.                                              *)
placementAlertsAsClaimed ==
    /\ \A i \in 1..Len(grains) :
          countAlerts(LAMBDA al : isPlacementAlert(al) /\ al.location = "Grain " \o ToString(i))
              = (IF i \in misplaced THEN 1 ELSE 0)
    /\ countAlerts(isPlacementAlert) = Cardinality(misplaced)
    /\ \A j \in 1..Len(simRes.alerts) :
          isPlacementAlert(simRes.alerts[j]) => simRes.alerts[j].level = ERROR
    /\ (misplaced # {} => pc = "rejected")

C2_AsStated ==
    Returned =>
        /\ placementAlertsAsClaimed
        /\ (Len(grains) = 2 /\ grains[2].type = endBurningGrain) =>
              /\ Len(errorAlerts) = 1
              /\ errorAlerts[1].location = "Grain 2"

(* C2, amended: one placement ERROR per end-burning grain at index >= 1,    *)
(* located at "Grain <i+1>", none at index 0, and any such grain rejects    *)
(* the run; a 2-grain stack with an end-burning grain at index 1 yields     *)
(* exactly one placement ERROR, located at "Grain 2", which is the only     *)
(* ERROR alert when a propellant is set and neither a grain nor the nozzle  *)
(* reports an ERROR geometry alert.                                         *)
C2_EndBurnerPlacement ==
    Returned =>
        /\ placementAlertsAsClaimed
        /\ (Len(grains) = 2 /\ grains[2].type = endBurningGrain) =>
              /\ countAlerts(isPlacementAlert) = 1
              /\ countAlerts(LAMBDA al : isPlacementAlert(al) /\ al.location = "Grain 2") = 1
              /\ (cleanOtherwise => Len(errorAlerts) = 1 /\ errorAlerts[1].location = "Grain 2")

C2_Witness ==
    /\ pc = "rejected"
    /\ Len(grains) = 2
    /\ grains[2].type = endBurningGrain
    /\ grains[1].type = endBurningGrain
    /\ Len(errorAlerts) = 1
    /\ isPlacementAlert(errorAlerts[1])
    /\ errorAlerts[1].location = "Grain 2"

-----------------------------------------------------------------------------
(* C3: whenever validation reports an ERROR (no grains, a misplaced         *)
(* end-burning grain, an ERROR geometry alert of a grain or the nozzle, no  *)
(* propellant), the call returns with success=false, every channel empty,   *)
(* simulationSetup called on no grain and the callback never invoked, and   *)
(* the result holds every alert the validation checks report.               *)
C3_RejectionLeavesNothing ==
    (pc # "call" /\ motorHasValidationError) =>
        /\ pc = "rejected"
        /\ ~simRes.success
        /\ allChannelsEmpty
        /\ \A i \in 1..Len(grains) : setupCalls[i] = 0
        /\ cbCalls = 0
        /\ Len(simRes.alerts) = validationAlertCount
        /\ Len(errorAlerts) >= 1

C3_Witness ==
    /\ pc = "rejected"
    /\ Len(grains) = 2
    /\ callback # None
    /\ Len(simRes.alerts) >= 4
    /\ Len(errorAlerts) < Len(simRes.alerts)
    /\ allChannelsEmpty

-----------------------------------------------------------------------------
(* C4: in a run that passed validation, when the callback returns false on  *)
(* its first k-1 invocations and true on its k-th (k >= 1), the result has  *)
(* exactly 2+k samples in each of the seven channels, success=false and no  *)
(* ERROR alert, and the callback is not invoked again.                      *)
cancelsAt(k) == callback # None /\ callback.cancelAt = k /\ k >= 1

C4_CancellationSampleCount ==
    \A k \in 1..MaxCancel :
        cancelsAt(k) =>
            /\ cbCalls <= k
            /\ (cbCalls = k /\ pc # "call") =>
                  /\ pc = "cancelled"
                  /\ \A c \in channelNames : samples(c) = 2 + k
                  /\ ~simRes.success
                  /\ Len(errorAlerts) = 0
            /\ (pc = "cancelled" => cbCalls = k)

C4_Witness ==
    /\ pc = "cancelled"
    /\ cancelsAt(2)
    /\ cbCalls = 2
    /\ \A c \in channelNames : samples(c) = 4

-----------------------------------------------------------------------------
(* C5 as stated: a run that ends by cancellation returns success=false and  *)
(* an empty alert list.                                                     *)
C5_AsStated ==
    pc = "cancelled" => (~simRes.success /\ simRes.alerts = <<>>)

(* C5, amended: a run that ends by cancellation returns success=false and   *)
(* no ERROR alert; the alerts it carries are the WARNING alerts raised      *)
(* before the first step (WARNING-level geometry alerts and the port/throat *)
(* warning), never a post-run warning.                                      *)
portThroatTooSmall ==
    /\ grains[Len(grains)].type # endBurningGrain
    /\ grains[Len(grains)].coreDiameter * grains[Len(grains)].coreDiameter
         < config.minPortThroat * nozzle.throat * nozzle.throat

C5_CancelledHasNoError ==
    pc = "cancelled" =>
        /\ ~simRes.success
        /\ Len(errorAlerts) = 0
        /\ \A j \in 1..Len(simRes.alerts) :
              /\ simRes.alerts[j].level = WARNING
              /\ simRes.alerts[j].location # "Motor"
        /\ Len(simRes.alerts) = validationAlertCount + (IF portThroatTooSmall THEN 1 ELSE 0)

C5_Witness ==
    /\ pc = "cancelled"
    /\ ~simRes.success
    /\ Len(simRes.alerts) = 2
    /\ simRes.alerts[2].location = "N/A"

-----------------------------------------------------------------------------
(* C6: the three ways a call returns are told apart by the result alone:    *)
(* success=true iff the loop was left because the continuation test was     *)
(* false; a result with success=false has either at least one ERROR alert   *)
(* and all channels empty (rejected) or no ERROR alert and at least 3       *)
(* samples in every channel (cancelled); no result has success=true and an  *)
(* ERROR alert.                                                             *)
C6_OutcomesDistinguishable ==
    Returned =>
        /\ (simRes.success <=> pc = "burnout")
        /\ simRes.success =>
              /\ Len(errorAlerts) = 0
              /\ \A c \in channelNames : samples(c) >= 2
              /\ ~(simRes.channels["force"][samples("force")] * 100
                     > config.burnoutThrustThres * MaxOf(Range(simRes.channels["force"])))
        /\ ~simRes.success =>
              \/ /\ pc = "rejected"
                 /\ Len(errorAlerts) >= 1
                 /\ allChannelsEmpty
              \/ /\ pc = "cancelled"
                 /\ Len(errorAlerts) = 0
                 /\ \A c \in channelNames : samples(c) >= 3

C6_Witness ==
    /\ pc = "cancelled"
    /\ ~simRes.success
    /\ Len(errorAlerts) = 0
    /\ \A c \in channelNames : samples(c) = 3

-----------------------------------------------------------------------------
(* C7: after the seeded samples and after every completed step another step *)
(* is executed iff the last force sample is strictly greater than           *)
(* burnoutThrustThres percent of the maximum of the force channel so far:   *)
(* every force sample that was followed by a step (all but the last, from   *)
(* index 1 on) was strictly above that bound of the peak at its time, and   *)
(* on burnout the final sample is at or below it, so a sample at exactly    *)
(* burnoutThrustThres percent of the running peak is the last one.          *)
forceAt(j) == simRes.channels["force"][j]

peakUpTo(j) == MaxOf({forceAt(i) : i \in 1..j})

aboveBound(j) == forceAt(j) * 100 > config.burnoutThrustThres * peakUpTo(j)

C7_RelativeThrustBurnout ==
    pc \in {"loop", "cancelled", "burnout"} =>
        /\ \A j \in 2..(samples("force") - 1) : aboveBound(j)
        /\ (pc = "burnout" => ~aboveBound(samples("force")))

C7_Witness ==
    /\ pc = "burnout"
    /\ samples("force") >= 4
    /\ forceAt(samples("force")) > 0
    /\ forceAt(samples("force")) * 100 = config.burnoutThrustThres * peakUpTo(samples("force"))
    /\ \A j \in 2..(samples("force") - 1) : aboveBound(j)

-----------------------------------------------------------------------------
(* C8: every run that passed validation has at least two samples per        *)
(* channel; sample 0 is time=0, kn=0, pressure=0, force=0, per-grain mass = *)
(* initial volume x density, all-zero massFlow and massFlux; sample 1 is    *)
(* time=timestep, kn, pressure and force evaluated at zero regression, the  *)
(* same masses and all-zero massFlow and massFlux; no later step changes    *)
(* them.                                                                    *)
sampleAt(j) == [c \in channelNames |-> simRes.channels[c][j]]

massAtStart == [i \in 1..Len(grains) |-> getVolumeAtRegression(grains[i], 0) * propellant.density]

noFlow == [i \in 1..Len(grains) |-> 0]

C8_SeededSamples ==
    pc \in {"loop", "cancelled", "burnout"} =>
        /\ \A c \in channelNames : samples(c) >= 2
        /\ sampleAt(1) = [time |-> 0, kn |-> 0, pressure |-> 0, force |-> 0,
                          mass |-> massAtStart, massFlow |-> noFlow, massFlux |-> noFlow]
        /\ sampleAt(2) = [time |-> config.timestep,
                          kn |-> calcKN(noFlow, config.burnoutWebThres),
                          pressure |-> calcIdealPressure(noFlow, None, config.burnoutWebThres),
                          force |-> calcForce(noFlow, None, config.ambPressure, config.burnoutWebThres),
                          mass |-> massAtStart, massFlow |-> noFlow, massFlux |-> noFlow]

C8_Witness ==
    /\ pc = "burnout"
    /\ samples("time") >= 5
    /\ Len(grains) = 2
    /\ sampleAt(1).force = 0
    /\ sampleAt(2).force > 0
    /\ sampleAt(2).time = config.timestep
    /\ sampleAt(2).mass = massAtStart

-----------------------------------------------------------------------------
(* C9: within a run that passed validation, over every pair of consecutive  *)
(* samples each grain's regression does not decrease and the total          *)
(* propellant mass (the sum of the per-grain mass sample) does not          *)
(* increase.                                                                *)
totalMass(res, j) == SumSeq(res.channels["mass"][j])

massNonIncreasing(res) ==
    \A j \in 1..(Len(res.channels["mass"]) - 1) : totalMass(res, j + 1) <= totalMass(res, j)

C9_Monotonicity ==
    [][pc = "loop" =>
          /\ \A i \in 1..Len(grains) : perGrainReg'[i] >= perGrainReg[i]
          /\ massNonIncreasing(simRes')]_vars

C9_Witness ==
    /\ pc = "loop"
    /\ samples("mass") >= 4
    /\ Len(grains) = 2
    /\ \A i \in 1..Len(grains) : perGrainReg[i] > 0
    /\ totalMass(simRes, samples("mass")) < totalMass(simRes, samples("mass") - 1)
    /\ totalMass(simRes, samples("mass") - 1) < totalMass(simRes, 2)

-----------------------------------------------------------------------------
(* C10: a second call of runSimulation on the same motor object, with the   *)
(* same config and the same callback behaviour, returns the same channels,  *)
(* alerts and success flag as the first, and starts every grain at          *)
(* regression 0: nothing of the first call carries over.                    *)
C10_Determinism ==
    /\ (run = 2 /\ Returned) => firstRes = Some(simRes)
    /\ (pc = "loop" /\ samples("time") = 2) => \A i \in 1..Len(grains) : perGrainReg[i] = 0

C10_Witness ==
    /\ run = 2
    /\ pc = "burnout"
    /\ samples("time") >= 5
    /\ \E i \in 1..Len(grains) : perGrainReg[i] > 0
    /\ firstRes = Some(simRes)

-----------------------------------------------------------------------------
(* C11 *)

reconstructed == loadedFrom # None

-----------------------------------------------------------------------------
(* C12 *)

isMassFluxWarning(al) ==
    al = simAlert(WARNING, CONSTRAINT, "Peak mass flux exceeded configured limit", "Motor")

isPressureWarning(al) ==
    al = simAlert(WARNING, CONSTRAINT, "Max pressure exceeded configured limit", "Motor")

\* the largest entry of the massFlux channel over all samples and grains,
\* and the largest pressure sample
peakMassFluxSample ==
    MaxOf({simRes.channels["massFlux"][j][i] :
              j \in 1..samples("massFlux"), i \in 1..Len(grains)})

maxPressureSample == MaxOf({simRes.channels["pressure"][j] : j \in 1..samples("pressure")})

postRunChecksAsClaimed ==
    IF pc = "burnout"
    THEN /\ simRes.success
         /\ countAlerts(isMassFluxWarning) =
               (IF peakMassFluxSample > config.maxMassFlux THEN 1 ELSE 0)
         /\ countAlerts(isPressureWarning) =
               (IF maxPressureSample > config.maxPressure THEN 1 ELSE 0)
    ELSE pc \in {"setup", "loop", "rejected", "cancelled"} =>
            /\ countAlerts(isMassFluxWarning) = 0
            /\ countAlerts(isPressureWarning) = 0

postRunChecksFrame ==
    pc' = "burnout" /\ pc # "burnout" =>
        /\ simRes'.channels = simRes.channels
        /\ simRes'.success
        /\ \E added \in {<<>>} \cup {<<1>>, <<2>>, <<1, 2>>} :
              /\ Len(simRes'.alerts) = Len(simRes.alerts) + Len(added)
              /\ SubSeq(simRes'.alerts, 1, Len(simRes.alerts)) = simRes.alerts

\* C12: the post-run checks are made on natural burnout only, with success
\* already true: the result of a burnout carries the mass-flux WARNING
\* exactly when the largest massFlux sample is strictly above maxMassFlux
\* and the pressure WARNING exactly when the largest pressure sample is
\* strictly above maxPressure; the checks leave every channel and success
\* as they are; no other state of a call carries either warning.
C12_PostRunChecks == [](postRunChecksAsClaimed) /\ [][postRunChecksFrame]_vars

C12_Witness ==
    /\ pc = "burnout"
    /\ simRes.success
    /\ countAlerts(isMassFluxWarning) = 1
    /\ countAlerts(isPressureWarning) = 1
    /\ samples("time") >= 3

-----------------------------------------------------------------------------
(* C13 *)

neverCancels == callback = None \/ callback.cancelAt = 0

\* C13: a call on a motor that has passed validation, whose callback is
\* absent or never requests cancellation, reaches burnout after finitely
\* many steps; and every call ends, as rejected, cancelled or burnt out.
C13_Termination ==
    /\ (pc = "setup" /\ neverCancels) ~> (pc = "burnout")
    /\ (pc = "call") ~> Returned

C13_Witness ==
    /\ pc = "burnout"
    /\ neverCancels
    /\ propellant.a > 0
    /\ config.timestep > 0
    /\ samples("time") >= 5
    /\ samples("time") < MaxSamples

-----------------------------------------------------------------------------
(* C14 *)

\* a transition that is one iteration of the loop
stepTaken == pc = "loop" /\ Len(simRes'.channels["time"]) = samples("time") + 1

\* grain i (1-based) has web left when the iteration starts
burningBefore(i) == getWebLeft(grains[i], perGrainReg[i]) > config.burnoutWebThres

\* what the iteration adds to the running mass flow at grain i
flowAdded(i) ==
    getLast(simRes', "massFlow")[i] - (IF i = 1 THEN 0 ELSE getLast(simRes', "massFlow")[i - 1])

flowFromMassDrop(i) ==
    (getLast(simRes, "mass")[i] - getLast(simRes', "mass")[i]) \div config.timestep

\* C14 as stated: in every step, for each grain with web left, the mass
\* sample recorded is density x volume at the regression after this step's
\* increment, and (previous mass sample - new mass)/ts is what the grain
\* adds to the running mass flow.
C14_AsStated ==
    [][stepTaken =>
          \A i \in 1..Len(grains) :
              burningBefore(i) =>
                  /\ getLast(simRes', "mass")[i] =
                        getVolumeAtRegression(grains[i], perGrainReg[i] + regressionStep(simRes))
                            * propellant.density
                  /\ flowAdded(i) = flowFromMassDrop(i)]_vars

\* C14, what the code does: the mass sample recorded for a grain with web
\* left is density x volume at the regression the grain had when the step
\* began, one increment behind the regression the step leaves, and (previous
\* mass sample - recorded mass)/ts is what the grain adds to the running
\* mass flow.
C14_MassOneStepBehind ==
    [][stepTaken =>
          \A i \in 1..Len(grains) :
              burningBefore(i) =>
                  /\ getLast(simRes', "mass")[i] =
                        getVolumeAtRegression(grains[i], perGrainReg[i]) * propellant.density
                  /\ perGrainReg'[i] = perGrainReg[i] + regressionStep(simRes)
                  /\ flowAdded(i) = flowFromMassDrop(i)]_vars

C14_Witness ==
    /\ samples("time") >= 4
    /\ \E i \in 1..Len(grains) :
          /\ getLast(simRes, "mass")[i] > 0
          /\ getLast(simRes, "mass")[i] >
                getVolumeAtRegression(grains[i], perGrainReg[i]) * propellant.density
          /\ getLast(simRes, "massFlow")[i] > 0

-----------------------------------------------------------------------------
(* C15 *)

\* what grain i (1-based) contributes to the mass flow in the iteration: the
\* drop of its mass sample over the timestep, nothing when it has no web left
contribution(i) == IF burningBefore(i) THEN flowFromMassDrop(i) ELSE 0

RECURSIVE contributionsUpTo(_)
contributionsUpTo(i) == IF i = 0 THEN 0 ELSE contribution(i) + contributionsUpTo(i - 1)

\* C15: in every step the massFlow value recorded for a grain is the sum of
\* this step's contributions of the grains from the forward-most one to it,
\* the mass flux recorded for a grain with web left is the one computed with
\* the sum of the contributions of the grains forward of it as inlet flow, a
\* grain without web left contributes nothing, records the inlet flow
\* unchanged and a mass flux of zero; nothing of an earlier step enters the
\* sums.
C15_ForwardToAftAccumulation ==
    [][stepTaken =>
          \A i \in 1..Len(grains) :
              /\ getLast(simRes', "massFlow")[i] = contributionsUpTo(i)
              /\ getLast(simRes', "massFlux")[i] =
                    (IF burningBefore(i)
                     THEN getPeakMassFlux(grains[i], contributionsUpTo(i - 1), config.timestep,
                                          perGrainReg[i], regressionStep(simRes),
                                          propellant.density)
                     ELSE 0)
              /\ ~burningBefore(i) => flowAdded(i) = 0]_vars

C15_Witness ==
    /\ samples("time") >= 4
    /\ Len(grains) = 2
    /\ grains[2].type = tubeGrain
    /\ getLast(simRes, "massFlow")[1] > 0
    /\ getLast(simRes, "massFlow")[2] = getLast(simRes, "massFlow")[1]
    /\ \E j \in 3..samples("time") :
          /\ simRes.channels["massFlow"][j][1] > 0
          /\ simRes.channels["massFlow"][j][2] > simRes.channels["massFlow"][j][1]
          /\ simRes.channels["massFlux"][j][2] > 0

-----------------------------------------------------------------------------
(* C16 *)

\* ts * a * (pressure of the previous sample)^n, n being 0 or 1/2
incrementFromPreviousPressure ==
    IF propellant.nTwice = 0
    THEN config.timestep * propellant.a
    ELSE config.timestep * propellant.a * ISqrt(getLast(simRes, "pressure"))

\* C16: in every step each grain with web left regresses by the same
\* dr = ts*a*(pressure of the previous sample)^n; the kn sample of the step
\* is calcKN of the regressions the step leaves, its pressure sample is
\* computed from that kn sample, its force sample from that pressure sample,
\* and its time sample is the previous time plus ts.
C16_RegressThenRecompute ==
    [][stepTaken =>
          /\ \A i \in 1..Len(grains) :
                burningBefore(i) => perGrainReg'[i] = perGrainReg[i] + incrementFromPreviousPressure
          /\ getLast(simRes', "kn") = calcKN(perGrainReg', config.burnoutWebThres)
          /\ getLast(simRes', "pressure") =
                calcIdealPressure(perGrainReg', Some(getLast(simRes', "kn")),
                                  config.burnoutWebThres)
          /\ getLast(simRes', "force") =
                calcForce(perGrainReg', Some(getLast(simRes', "pressure")),
                          config.ambPressure, config.burnoutWebThres)
          /\ getLast(simRes', "time") = getLast(simRes, "time") + config.timestep]_vars

C16_Witness ==
    /\ samples("time") >= 4
    /\ propellant.nTwice = 1
    /\ simRes.channels["pressure"][3] > simRes.channels["pressure"][2]
    /\ simRes.channels["pressure"][2] > 0
    /\ simRes.channels["kn"][3] > simRes.channels["kn"][2]
    /\ simRes.channels["force"][3] > 0
    /\ \E i \in 1..Len(grains) : perGrainReg[i] > 2 * config.timestep * propellant.a

-----------------------------------------------------------------------------
(* C17 *)

isPortThroatWarning(al) == al.level = WARNING /\ al.type = CONSTRAINT /\ al.location = "N/A"

aftGrain == grains[Len(grains)]

\* the port of the aft-most grain at regression 0 is defined and its ratio
\* to the throat area is below the minimum
aftPortBelowMinimum ==
    /\ aftGrain.type # endBurningGrain
    /\ circleArea(aftGrain.coreDiameter) < config.minPortThroat * circleArea(nozzle.throat)

portThroatWarningAsClaimed ==
    /\ pc = "setup" => countAlerts(isPortThroatWarning) = 0
    /\ pc \in {"loop", "cancelled", "burnout"} =>
          countAlerts(isPortThroatWarning) = (IF aftPortBelowMinimum THEN 1 ELSE 0)

\* C17: a run that has passed validation carries, from its two seeded
\* samples on and before any step, exactly one WARNING constraint alert
\* located at "N/A" if the port area of the aft-most grain at regression 0 is
\* defined and its ratio to the throat area is strictly below minPortThroat,
\* and none otherwise (in particular none when the aft-most grain has no port
\* area); the run enters the step loop in both cases.
C17_PortThroatWarning ==
    [](portThroatWarningAsClaimed) /\ [][pc = "setup" => pc' = "loop" /\ samples("time")' = 2]_vars

C17_Witness ==
    /\ pc = "loop"
    /\ samples("time") = 2
    /\ Len(grains) = 2
    /\ aftPortBelowMinimum
    /\ circleArea(grains[1].coreDiameter) >= config.minPortThroat * circleArea(nozzle.throat)
    /\ countAlerts(isPortThroatWarning) = 1

-----------------------------------------------------------------------------
(* C18 *)

callbackSupplied == callback # None

inRun == pc \in {"loop", "cancelled", "burnout"}

\* 1 - max over the grains of webLeft(regression)/webLeft(0), in percent
progressClaimed ==
    100 - MaxOf({(100 * getWebLeft(grains[i], perGrainReg[i])) \div getWebLeft(grains[i], 0) :
                    i \in 1..Len(grains)})

everyGrainPastItsWeb == \A i \in 1..Len(grains) : getWebLeft(grains[i], perGrainReg[i]) < 0

onePerCompletedStep ==
    /\ cbCalls = samples("time") - 2
    /\ Len(cbArgs) = cbCalls
    /\ \A name \in channelNames : samples(name) = samples("time")
    /\ cbCalls > 0 => cbArgs[cbCalls] = progressClaimed

-----------------------------------------------------------------------------
(* C19 *)

\* the force sample seeded at time = timestep is 0
zeroThrustIgnition == inRun /\ simRes.channels["force"][2] = 0

zeroThrustRunsNoStep ==
    zeroThrustIgnition =>
        /\ pc \in {"loop", "burnout"}
        /\ pc = "loop" => ~continueTest(simRes)
        /\ pc = "burnout" => simRes.success
        /\ cbCalls = 0
        /\ \A name \in channelNames : samples(name) = 2

stepsEnteredUnderThrust ==
    stepTaken =>
        /\ getLast(simRes, "force") > 0
        /\ getLast(simRes, "pressure") > 0
        /\ \A i \in 1..Len(grains) : burningBefore(i) => perGrainReg'[i] > perGrainReg[i]

\* C19: when the force sample seeded at time = timestep is 0, no step is
\* executed, the callback is not invoked and the call returns success = true
\* with exactly 2 samples in every channel; every step that is executed
\* starts from a last force sample and a last pressure sample above 0 and
\* strictly increases the regression of every grain with web left.
C19_ZeroThrustIgnition == [](zeroThrustRunsNoStep) /\ [][stepsEnteredUnderThrust]_vars

C19_Witness ==
    /\ pc = "burnout"
    /\ zeroThrustIgnition
    /\ simRes.channels["pressure"][2] > 0
    /\ callbackSupplied
    /\ cbCalls = 0
    /\ simRes.success
    /\ samples("time") = 2

-----------------------------------------------------------------------------
(* C20 *)

\* grain i (1-based) has no web left above the threshold
spent(i) == getWebLeft(grains[i], perGrainReg[i]) <= config.burnoutWebThres

\* C20: in every step, a grain whose web left is at or below burnoutWebThres
\* when the step begins keeps its regression (so it is spent in every later
\* step too), gets a mass sample of exactly 0 and a mass flux sample of 0,
\* and adds nothing to the running mass flow, whatever its previous mass
\* sample was.
C20_SpentGrainBookkeeping ==
    [][stepTaken =>
          \A i \in 1..Len(grains) :
              spent(i) =>
                  /\ perGrainReg'[i] = perGrainReg[i]
                  /\ getLast(simRes', "mass")[i] = 0
                  /\ getLast(simRes', "massFlux")[i] = 0
                  /\ flowAdded(i) = 0]_vars

C20_Witness ==
    /\ inRun
    /\ samples("time") >= 4
    /\ Len(grains) = 2
    /\ spent(2)
    /\ getLast(simRes, "mass")[2] = 0
    /\ simRes.channels["mass"][samples("mass") - 1][2] > 0
    /\ getLast(simRes, "mass")[1] > 0
    /\ getLast(simRes, "massFlow")[1] > 0
    /\ getLast(simRes, "massFlow")[2] = getLast(simRes, "massFlow")[1]

====
